---------------------------- MODULE Spec2Model ----------------------------
(***************************************************************************)
(* A model of the rankings harvester:                                      *)
(*   - scraper.py: fetch_data_with_retry (SpecFetch), scrape_group and the *)
(*     group loop of __main__ (SpecScrape);                                *)
(*   - upload_teams_to_supabase.py: process_file, deduplicate_records,     *)
(*     main and write_log (SpecIngest).                                    *)
(* The record extraction of scrape_group is also run on one payload at a   *)
(* time (SpecExtract).                                                     *)
(* Each specification drives its own variables and leaves the others at    *)
(* their initial values.                                                   *)
(***************************************************************************)
EXTENDS Integers, Sequences, FiniteSets, TLC

VARIABLES
    \* ---- fetch_data_with_retry (one call) ----
    attempt,        \* the loop variable of "for attempt in range(MAX_RETRIES)"
    fpc,            \* "request" | "sleep" | "returned" | "idle"
    responses,      \* what session.get produced at each attempt so far
    slept,          \* the delays handed to time.sleep, in order
    fret,           \* the value returned
    \* ---- scrape_group and the group loop ----
    gi,             \* index of the group being collected
    spc,            \* position of the main thread
    first_page,     \* scrape_group's first_page
    total_pages,    \* scrape_group's total_pages
    submitted,      \* number of page_urls handed to executor.submit
    fut,            \* page -> the future's state and result
    waiting,        \* as_completed has installed its waiter
    yieldq,         \* futures as_completed will yield next, in order
    idx,            \* the enumerate counter of the drain loop
    yielded,        \* the futures the drain loop has been given, in order
    all_teams,      \* scrape_group's all_teams
    files,          \* OUTPUT_DIR of the group being collected: name -> content
    written,        \* names of the files left by the groups already collected
    aborted,        \* the groups whose first request returned None
    fetched,        \* page -> calls of fetch_data_with_retry in this group
    jittered,       \* jitter sleeps taken by the main thread in this group
    workers,        \* the pool's threads: the page each is fetching (0: none)
    idle_sem,       \* the executor's count of workers that finished an item
    \* ---- upload_teams_to_supabase.py ----
    data_folder,    \* the files of DATA_FOLDER, in os.listdir order
    store,          \* the rows of the table team_ranking_data
    logs,           \* the summary logs written so far, oldest first
    run,            \* which run of the script this is
    ipc,            \* position of main
    fi,             \* index of the next file of the listing
    all_records,    \* main's all_records
    deduplicated_records,
    upserts,        \* the batches handed to upsert in this run
    skipped_files,  \* module globals (lines 15-19)
    empty_files,
    skipped_teams,
    duplicate_teams,
    total_uploaded,
    upsert_error,   \* the upsert of this run raised (lines 104-105)
    \* ---- scrape_group, lines 120-137 on one payload ----
    payload,        \* data, the payload a future returned
    xpc,            \* "extract" | "done" | "idle"
    extracted,      \* what the block added to all_teams
    xraised         \* the block ended in the handler of line 136

fetchVars  == <<attempt, fpc, responses, slept, fret>>
scrapeVars == <<gi, spc, first_page, total_pages, submitted, fut, waiting,
                yieldq, idx, yielded, all_teams, files, written, aborted, fetched,
                jittered, workers, idle_sem>>
ingestVars == <<data_folder, store, logs, run, ipc, fi, all_records,
                deduplicated_records, upserts, skipped_files, empty_files,
                skipped_teams, duplicate_teams, total_uploaded, upsert_error>>
extractVars == <<payload, xpc, extracted, xraised>>
vars == <<fetchVars, scrapeVars, ingestVars, extractVars>>

-----------------------------------------------------------------------------
(* Program constants of scraper.py *)
MAX_RETRIES == 3
RETRY_DELAY == 5
MAX_WORKERS == 5

(* Bounds of the model *)
MaxPages == 2
NumGroups == 2
MaxFiles == 2
MaxTeams == 2
MaxRuns == 2
MaxFileTeams == 2
MaxDups == 4
MaxFields == 3

-----------------------------------------------------------------------------
(* JSON payloads.  A payload is a dict (an ordered list of fields, plus the *)
(* pagination object when pag >= 0), a list, or None.  A field's value is   *)
(* a list of elements or something else; an element is a mapping with a    *)
(* key set or a scalar.  page and n tell the payloads and records apart.   *)

None == [kind |-> "none", page |-> 0, pag |-> -1, fields |-> <<>>, items |-> <<>>]

Dict(p, tp, fs) == [kind |-> "dict", page |-> p, pag |-> tp, fields |-> fs, items |-> <<>>]

List(p, xs) == [kind |-> "list", page |-> p, pag |-> -1, fields |-> <<>>, items |-> xs]

Field(k, xs) == [key |-> k, islist |-> TRUE, items |-> xs]

Scalar(k) == [key |-> k, islist |-> FALSE, items |-> <<>>]

Mapping(ks, p, n) == [ismap |-> TRUE, keys |-> ks, page |-> p, n |-> n]

Number(n) == [ismap |-> FALSE, keys |-> {}, page |-> 0, n |-> n]

Team(p, n) == Mapping({"id", "team_name", "total_points"}, p, n)

EmptyDict == Dict(0, -1, <<>>)

EmptyList == List(0, <<>>)

(* Mutants of Truthy: no test at all; a test that takes a payload with    *)
(* several fields for an empty one.                                        *)
TruthyAlways(d) == TRUE

(* Python truthiness of a payload: None, {} and [] are false. *)
Truthy(d) ==
    \/ d.kind = "dict" /\ (d.pag >= 0 \/ d.fields # <<>>)
    \/ d.kind = "list" /\ d.items # <<>>

-----------------------------------------------------------------------------
(* fetch_data_with_retry, one attempt per step.                            *)

(* What session.get(url, timeout=30) followed by response.json() can do at *)
(* one attempt: raise a transport error, raise a timeout, answer with a    *)
(* status other than 200, answer 200 with a body that is not JSON, or      *)
(* answer 200 with a JSON body.                                            *)
Outcome(k, b) == [kind |-> k, body |-> b]

FailureKinds == {"connection_error", "timeout", "status_404", "status_500", "invalid_json"}

(* What response.json() gives for the bodies null, {} and a page: the     *)
(* JSON value null is Python's None.                                       *)
FetchBodies == {None, EmptyDict, Dict(1, 1, <<Field("team_ranking_data", <<Team(1, 1)>>)>>)}

AttemptOutcomes == {Outcome(k, None) : k \in FailureKinds} \cup {Outcome("ok", b) : b \in FetchBodies}

(* Line 59-61: the attempt returns only on status 200 whose body parses;   *)
(* everything else is logged (62-65) and falls through to the backoff.     *)
AttemptReturns(o) == o.kind = "ok"

(* Line 67: a delay is slept unless this was the last attempt. *)
SleepsAfter(a) == a < MAX_RETRIES - 1

(* Mutant of BackoffDelay: the loop index used as the attempt number. *)
BackoffDelayFromZero(a) == RETRY_DELAY * a

(* Line 68: delay = RETRY_DELAY * (attempt + 1). *)
BackoffDelay(a) == RETRY_DELAY * (a + 1)

FetchInit ==
    /\ attempt = 0
    /\ fpc = "request"
    /\ responses = <<>>
    /\ slept = <<>>
    /\ fret = None

FetchIdle ==
    /\ attempt = 0
    /\ fpc = "idle"
    /\ responses = <<>>
    /\ slept = <<>>
    /\ fret = None

(* Lines 56-65: one pass of the try block. *)
Request ==
    /\ fpc = "request"
    /\ attempt < MAX_RETRIES
    /\ \E o \in AttemptOutcomes :
        /\ responses' = Append(responses, o)
        /\ IF AttemptReturns(o)
           THEN /\ fret' = o.body
                /\ fpc' = "returned"
                /\ attempt' = attempt
           ELSE IF SleepsAfter(attempt)
           THEN /\ fpc' = "sleep"
                /\ UNCHANGED <<fret, attempt>>
           ELSE /\ attempt' = attempt + 1
                /\ fpc' = "returned"
                /\ fret' = None
    /\ UNCHANGED slept
    /\ UNCHANGED <<scrapeVars, ingestVars, extractVars>>

(* Lines 67-70: the backoff sleep, then the next iteration. *)
Backoff ==
    /\ fpc = "sleep"
    /\ slept' = Append(slept, BackoffDelay(attempt))
    /\ attempt' = attempt + 1
    /\ fpc' = "request"
    /\ UNCHANGED <<responses, fret>>
    /\ UNCHANGED <<scrapeVars, ingestVars, extractVars>>

FetchNext == Request \/ Backoff

-----------------------------------------------------------------------------
(* scrape_group: record extraction from one page (lines 120-132).          *)

MarkerKeys == {"name", "id", "team", "rank"}

CanonicalField == "team_ranking_data"

SeqRange(xs) == {xs[i] : i \in 1..Len(xs)}

(* Line 121: the payload has the canonical key and its value is a list. *)
HasCanonicalList(d) ==
    \E f \in SeqRange(d.fields) : f.key = CanonicalField /\ f.islist

CanonicalTeams(d) ==
    (CHOOSE f \in SeqRange(d.fields) : f.key = CanonicalField).items

(* Mutant of SampleMatches: any mapping will do. *)
SampleMatchesAnyMapping(sample) == sample.ismap

(* Line 129: the sample is a dict holding one of the marker keys. *)
SampleMatches(sample) == sample.ismap /\ sample.keys \cap MarkerKeys # {}

(* Lines 126-132: the scan of the payload's keys from position i, acc being *)
(* what has been added to all_teams so far.  data[key][0] on an empty list  *)
(* raises IndexError, which ends the scan (the handler of line 136).        *)
RECURSIVE ScanKeys(_, _, _)
ScanKeys(fs, i, acc) ==
    IF i > Len(fs) THEN [teams |-> acc, raised |-> FALSE]
    ELSE IF fs[i].key # CanonicalField /\ fs[i].islist
    THEN IF fs[i].items = <<>> THEN [teams |-> acc, raised |-> TRUE]
         ELSE IF SampleMatches(fs[i].items[1])
         THEN ScanKeys(fs, i + 1, acc \o fs[i].items)
         ELSE ScanKeys(fs, i + 1, acc)
    ELSE ScanKeys(fs, i + 1, acc)

(* Lines 120-132 on a truthy payload: what is appended to all_teams, and    *)
(* whether the block raised.  A list payload has no keys(): line 126 raises *)
(* AttributeError after line 121 found nothing.                             *)
ExtractPage(d) ==
    IF d.kind = "list" THEN [teams |-> <<>>, raised |-> TRUE]
    ELSE ScanKeys(d.fields, 1, IF HasCanonicalList(d) THEN CanonicalTeams(d) ELSE <<>>)

(* The payloads handed to the block: a dict of up to MaxFields fields with *)
(* distinct keys, or a list.  A field is the canonical one (a list or not), *)
(* a list of records, of numbers, of mappings without a marker key, a list  *)
(* whose first element has no marker key, an empty list, or no list.        *)
FieldCatalogue ==
    {Field(CanonicalField, <<Team(1, 1)>>),
     Scalar(CanonicalField),
     Field("teams", <<Team(1, 2), Team(1, 3)>>),
     Field("clubs", <<Mapping({"name"}, 1, 4), Number(5)>>),
     Field("codes", <<Number(6), Number(7)>>),
     Field("colours", <<Mapping({"colour"}, 1, 8)>>),
     Field("mixed", <<Mapping({"colour"}, 1, 9), Team(1, 10)>>),
     Field("notes", <<>>),
     Scalar("meta")}

DistinctKeys(fs) == \A i, j \in 1..Len(fs) : fs[i].key = fs[j].key => i = j

FieldLists(n) == {fs \in UNION {[1..k -> FieldCatalogue] : k \in 0..n} : DistinctKeys(fs)}

ExtractPayloads == {Dict(1, 1, fs) : fs \in FieldLists(MaxFields)} \cup {List(1, <<Team(1, 1)>>)}

ExtractInit ==
    /\ payload \in ExtractPayloads
    /\ xpc = "extract"
    /\ extracted = <<>>
    /\ xraised = FALSE

ExtractIdle ==
    /\ payload = None
    /\ xpc = "idle"
    /\ extracted = <<>>
    /\ xraised = FALSE

(* Lines 115-137 for one truthy payload, all_teams being empty before. *)
Extract ==
    /\ xpc = "extract"
    /\ Truthy(payload)
    /\ extracted' = ExtractPage(payload).teams
    /\ xraised' = ExtractPage(payload).raised
    /\ xpc' = "done"
    /\ UNCHANGED payload
    /\ UNCHANGED <<fetchVars, scrapeVars, ingestVars>>

ExtractNext == Extract

-----------------------------------------------------------------------------
(* scrape_group and the group loop of __main__.                            *)

RawName(n) == [kind |-> "raw", n |-> n]

TeamDataName == [kind |-> "team_data", n |-> 0]

RawDump(d) == [data |-> d, teams |-> <<>>]

Aggregate(ts) == [data |-> None, teams |-> ts]

(* save_data (lines 35-44): the file of that name now holds the content    *)
(* (the write is taken to succeed).                                        *)
save_data(fs, name, content) ==
    [n \in DOMAIN fs \cup {name} |-> IF n = name THEN content ELSE fs[n]]

NoFiles == [n \in {} |-> RawDump(None)]

(* The payloads the server can answer for a page. *)
GoodPage(p, tp) == Dict(p, tp, <<Field(CanonicalField, <<Team(p, 1)>>)>>)

(* A page that names its team twice, then holds an empty list. *)
MalformedPage(p, tp) ==
    Dict(p, tp, <<Field(CanonicalField, <<Team(p, 1)>>), Field("teams", <<Team(p, 1)>>),
                  Field("notes", <<>>), Field("more", <<Team(p, 2)>>)>>)

(* What fetch_data_with_retry can return for the first request: None       *)
(* (line 72) or the JSON body of a 200 response (line 61).                 *)
FirstReturns ==
    {None, EmptyDict, EmptyList, List(1, <<Team(1, 1)>>), GoodPage(1, -1)}
        \cup {GoodPage(1, tp) : tp \in 0..MaxPages}

(* ... and for a page fetched in the pool. *)
PoolReturns(p) ==
    {None, EmptyDict, GoodPage(p, total_pages), MalformedPage(p, total_pages)}

(* Lines 102-103: pagination.get("total_pages", 1). *)
TotalPagesOf(d) == IF d.pag >= 0 THEN d.pag ELSE 1

(* Line 107: page_urls, one per page in range(1, total_pages + 1). *)
page_urls == 1..total_pages

Queued == {p \in DOMAIN fut : fut[p].st = "queued"}

Running == {p \in DOMAIN fut : fut[p].st = "running"}

Finished == {p \in DOMAIN fut : fut[p].st = "done"}

Perms(S) == {q \in [1..Cardinality(S) -> S] : \A i, j \in 1..Cardinality(S) : q[i] = q[j] => i = j}

NoFetches == [p \in 1..MaxPages |-> 0]

FreshLocals ==
    [first_page |-> None, total_pages |-> 0, submitted |-> 0, fut |-> <<>>,
     waiting |-> FALSE, yieldq |-> <<>>, idx |-> 0, yielded |-> <<>>,
     all_teams |-> <<>>,
     files |-> NoFiles, fetched |-> NoFetches, jittered |-> 0,
     workers |-> <<>>, idle_sem |-> 0]

GroupLocals ==
    /\ first_page = FreshLocals.first_page
    /\ total_pages = FreshLocals.total_pages
    /\ submitted = FreshLocals.submitted
    /\ fut = FreshLocals.fut
    /\ waiting = FreshLocals.waiting
    /\ yieldq = FreshLocals.yieldq
    /\ idx = FreshLocals.idx
    /\ yielded = FreshLocals.yielded
    /\ all_teams = FreshLocals.all_teams
    /\ files = FreshLocals.files
    /\ fetched = FreshLocals.fetched
    /\ jittered = FreshLocals.jittered
    /\ workers = FreshLocals.workers
    /\ idle_sem = FreshLocals.idle_sem

ScrapeInit ==
    /\ gi = 1
    /\ spc = "first"
    /\ written = [g \in 1..NumGroups |-> {}]
    /\ aborted = {}
    /\ GroupLocals

ScrapeIdle ==
    /\ gi = 1
    /\ spc = "idle"
    /\ written = [g \in 1..NumGroups |-> {}]
    /\ aborted = {}
    /\ GroupLocals

(* Lines 76-107: the synchronous first request and what follows it.  A     *)
(* falsy first_page returns (96-98); a list has no get(): line 102 raises, *)
(* which ends the group loop in the handler of line 168.                   *)
FetchFirst ==
    /\ spc = "first"
    /\ \E data \in FirstReturns :
        /\ first_page' = data
        /\ fetched' = [fetched EXCEPT ![1] = @ + 1]
        /\ aborted' = IF data = None THEN aborted \cup {gi} ELSE aborted
        /\ IF ~Truthy(data)
           THEN /\ spc' = "pause"
                /\ UNCHANGED <<files, total_pages>>
           ELSE /\ files' = save_data(files, RawName(1), RawDump(data))
                /\ IF data.kind = "list"
                   THEN /\ spc' = "crashed"
                        /\ UNCHANGED total_pages
                   ELSE /\ total_pages' = TotalPagesOf(data)
                        /\ spc' = "submit"
    /\ UNCHANGED <<gi, submitted, fut, waiting, yieldq, idx, yielded, all_teams,
                   written, jittered, workers, idle_sem>>
    /\ UNCHANGED <<fetchVars, ingestVars, extractVars>>

(* A thread of the pool: the page it is fetching (0 when it waits on the   *)
(* work queue), and whether a jitter sleep was taken since its last fetch  *)
(* ended (a thread that has fetched nothing has nothing to be paced for).  *)
Worker(p, paced) == [page |-> p, paced |-> paced]

Waiting == {w \in DOMAIN workers : workers[w].page = 0}

(* The waiting threads that can take the next url: of several threads in  *)
(* the same state, which one takes it makes no difference, and the first  *)
(* stands for them all.                                                   *)
Takers == {w \in Waiting : \A v \in Waiting : workers[v] = workers[w] => w <= v}

(* Line 111: executor.submit of the next page url: the url is queued, and  *)
(* a thread is started unless a worker has reported itself idle or the     *)
(* pool already has MAX_WORKERS threads.                                   *)
Submit ==
    /\ spc = "submit"
    /\ submitted < total_pages
    /\ submitted' = submitted + 1
    /\ fut' = [p \in 1..(submitted + 1) |->
                 IF p = submitted + 1 THEN [st |-> "queued", res |-> None] ELSE fut[p]]
    /\ IF idle_sem > 0
       THEN /\ idle_sem' = idle_sem - 1
            /\ UNCHANGED workers
       ELSE /\ workers' = IF Len(workers) < MAX_WORKERS
                          THEN Append(workers, Worker(0, TRUE))
                          ELSE workers
            /\ UNCHANGED idle_sem
    /\ UNCHANGED <<gi, spc, first_page, total_pages, waiting, yieldq, idx, yielded, all_teams,
                   files, written, aborted, fetched, jittered>>
    /\ UNCHANGED <<fetchVars, ingestVars, extractVars>>

(* Line 113: as_completed starts: the futures already finished are yielded *)
(* first, in no particular order; the rest as they finish.                 *)
EnterDrain ==
    /\ spc = "submit"
    /\ submitted = total_pages
    /\ \E q \in Perms(Finished) : yieldq' = q
    /\ waiting' = TRUE
    /\ spc' = "drain"
    /\ UNCHANGED <<gi, first_page, total_pages, submitted, fut, idx, yielded, all_teams,
                   files, written, aborted, fetched, jittered, workers, idle_sem>>
    /\ UNCHANGED <<fetchVars, ingestVars, extractVars>>

(* A pool worker takes the oldest queued url off the work queue and calls  *)
(* fetch_data_with_retry on it; at most MAX_WORKERS run at once (110).     *)
StartFetch(p) ==
    /\ p \in Queued
    /\ \A q \in Queued : p <= q
    /\ Cardinality(Running) < MAX_WORKERS
    /\ \E w \in Takers : workers' = [workers EXCEPT ![w] = Worker(p, FALSE)]
    /\ fut' = [fut EXCEPT ![p].st = "running"]
    /\ fetched' = [fetched EXCEPT ![p] = @ + 1]
    /\ UNCHANGED <<gi, spc, first_page, total_pages, submitted, waiting, yieldq, idx, yielded,
                   all_teams, files, written, aborted, jittered, idle_sem>>
    /\ UNCHANGED <<fetchVars, ingestVars, extractVars>>

(* The worker's fetch_data_with_retry returns; the future is finished and  *)
(* the worker goes back to the work queue, reporting itself idle.          *)
CompleteFetch(p) ==
    /\ p \in Running
    /\ \E data \in PoolReturns(p) : fut' = [fut EXCEPT ![p] = [st |-> "done", res |-> data]]
    /\ yieldq' = IF waiting THEN Append(yieldq, p) ELSE yieldq
    /\ workers' = [w \in DOMAIN workers |->
                     IF workers[w].page = p THEN Worker(0, FALSE) ELSE workers[w]]
    /\ idle_sem' = idle_sem + 1
    /\ UNCHANGED <<gi, spc, first_page, total_pages, submitted, waiting, idx, yielded,
                   all_teams, files, written, aborted, fetched, jittered>>
    /\ UNCHANGED <<fetchVars, ingestVars, extractVars>>

(* Mutant of ProcessCompleted: a failed page discards what was collected. *)
ProcessCompletedDiscards ==
    /\ spc = "drain"
    /\ yieldq # <<>>
    /\ LET data == fut[Head(yieldq)].res
       IN  /\ idx' = idx + 1
           /\ IF Truthy(data)
              THEN /\ files' = save_data(files, RawName(idx + 1), RawDump(data))
                   /\ all_teams' = all_teams \o ExtractPage(data).teams
              ELSE /\ all_teams' = <<>>
                   /\ UNCHANGED files
    /\ yieldq' = Tail(yieldq)
    /\ yielded' = Append(yielded, Head(yieldq))
    /\ spc' = "jitter"
    /\ UNCHANGED <<gi, first_page, total_pages, submitted, fut, waiting, written,
                   aborted, fetched, jittered, workers, idle_sem>>
    /\ UNCHANGED <<fetchVars, ingestVars, extractVars>>

(* Lines 113-137: the body of the drain loop for the next finished future. *)
ProcessCompleted ==
    /\ spc = "drain"
    /\ yieldq # <<>>
    /\ LET data == fut[Head(yieldq)].res
       IN  /\ idx' = idx + 1
           /\ IF Truthy(data)
              THEN /\ files' = save_data(files, RawName(idx + 1), RawDump(data))
                   /\ all_teams' = all_teams \o ExtractPage(data).teams
              ELSE UNCHANGED <<files, all_teams>>
    /\ yieldq' = Tail(yieldq)
    /\ yielded' = Append(yielded, Head(yieldq))
    /\ spc' = "jitter"
    /\ UNCHANGED <<gi, first_page, total_pages, submitted, fut, waiting, written,
                   aborted, fetched, jittered, workers, idle_sem>>
    /\ UNCHANGED <<fetchVars, ingestVars, extractVars>>

(* Line 139: the polite delay, slept by the main thread in the loop over   *)
(* the finished futures.  Every worker waiting at that time has a jitter   *)
(* delay behind it.                                                        *)
Jitter ==
    /\ spc = "jitter"
    /\ jittered' = jittered + 1
    /\ workers' = [w \in DOMAIN workers |->
                     IF workers[w].page = 0 THEN Worker(0, TRUE) ELSE workers[w]]
    /\ spc' = "drain"
    /\ UNCHANGED <<gi, first_page, total_pages, submitted, fut, waiting, yieldq, idx, yielded,
                   all_teams, files, written, aborted, fetched, idle_sem>>
    /\ UNCHANGED <<fetchVars, ingestVars, extractVars>>

(* Mutant of ExitPool: the with block is left while futures are pending. *)
ExitPoolEarly ==
    /\ spc = "drain"
    /\ files' = IF all_teams # <<>>
                THEN save_data(files, TeamDataName, Aggregate(all_teams))
                ELSE files
    /\ spc' = "pause"
    /\ UNCHANGED <<gi, first_page, total_pages, submitted, fut, waiting, yieldq, idx, yielded,
                   all_teams, written, aborted, fetched, jittered, workers, idle_sem>>
    /\ UNCHANGED <<fetchVars, ingestVars, extractVars>>

(* The loop has yielded every future: the with block ends (the pool is     *)
(* shut down, waiting for its workers), then lines 141-148.                *)
ExitPool ==
    /\ spc = "drain"
    /\ idx = total_pages
    /\ Running = {} /\ Queued = {}
    /\ files' = IF all_teams # <<>>
                THEN save_data(files, TeamDataName, Aggregate(all_teams))
                ELSE files
    /\ spc' = "pause"
    /\ UNCHANGED <<gi, first_page, total_pages, submitted, fut, waiting, yieldq, idx, yielded,
                   all_teams, written, aborted, fetched, jittered, workers, idle_sem>>
    /\ UNCHANGED <<fetchVars, ingestVars, extractVars>>

(* Lines 159-162: scrape_group has returned; the short pause, then the     *)
(* next group, whose scrape_group starts with fresh locals.                *)
Pause ==
    /\ spc = "pause"
    /\ written' = [written EXCEPT ![gi] = DOMAIN files]
    /\ UNCHANGED aborted
    /\ gi' = gi + 1
    /\ spc' = IF gi + 1 > NumGroups THEN "done" ELSE "first"
    /\ first_page' = FreshLocals.first_page
    /\ total_pages' = FreshLocals.total_pages
    /\ submitted' = FreshLocals.submitted
    /\ fut' = FreshLocals.fut
    /\ waiting' = FreshLocals.waiting
    /\ yieldq' = FreshLocals.yieldq
    /\ idx' = FreshLocals.idx
    /\ yielded' = FreshLocals.yielded
    /\ all_teams' = FreshLocals.all_teams
    /\ files' = FreshLocals.files
    /\ fetched' = FreshLocals.fetched
    /\ jittered' = FreshLocals.jittered
    /\ workers' = FreshLocals.workers
    /\ idle_sem' = FreshLocals.idle_sem
    /\ UNCHANGED <<fetchVars, ingestVars, extractVars>>

ScrapeNext ==
    \/ FetchFirst
    \/ Submit
    \/ EnterDrain
    \/ \E p \in DOMAIN fut : StartFetch(p)
    \/ \E p \in DOMAIN fut : CompleteFetch(p)
    \/ ProcessCompleted
    \/ Jitter
    \/ ExitPool
    \/ Pause

-----------------------------------------------------------------------------
-----------------------------------------------------------------------------
(* upload_teams_to_supabase.py                                              *)

(* Python's None, as the value of national_rank when the key is absent. *)
PyNone == "None"

RequiredFields == <<"id", "team_name", "total_points", "age", "gender">>

(* A raw record of a file: a mapping from the keys it has to their values, *)
(* or an element that is no mapping (a number, a string, null, a list).    *)
RawTeam(has, id, v) ==
    [ismap |-> TRUE, attrs |-> [k \in has |-> IF k = "id" THEN id ELSE v]]

NotAMapping == [ismap |-> FALSE, attrs |-> [k \in {} |-> PyNone]]

AllFields == SeqRange(RequiredFields) \cup {"national_rank"}

(* The content of a file of DATA_FOLDER:                                   *)
(*   "other"       a name that does not end in .json                       *)
(*   "unparseable" json.load raises                                        *)
(*   "array"       a JSON array                                            *)
(*   "object"      a JSON object with the key team_ranking_data -> a list  *)
(*   "object_num"  ... with team_ranking_data -> a number                  *)
(*   "unknown"     any other JSON value                                    *)
File(kind, teams) == [kind |-> kind, teams |-> teams]

(* Lines 41-48: the first required key the mapping lacks, in the order the *)
(* dict display reads them; 0 when it has them all.                        *)
FirstMissing(team) ==
    IF \A i \in 1..Len(RequiredFields) : RequiredFields[i] \in DOMAIN team.attrs THEN 0
    ELSE CHOOSE i \in 1..Len(RequiredFields) :
            /\ RequiredFields[i] \notin DOMAIN team.attrs
            /\ \A j \in 1..(i - 1) : RequiredFields[j] \in DOMAIN team.attrs

(* Lines 41-48: the canonical record of a mapping that has every required key. *)
Canonical(team) ==
    [id |-> team.attrs["id"],
     team_name |-> team.attrs["team_name"],
     total_points |-> team.attrs["total_points"],
     age |-> team.attrs["age"],
     gender |-> team.attrs["gender"],
     national_rank |-> IF "national_rank" \in DOMAIN team.attrs
                       THEN team.attrs["national_rank"] ELSE PyNone]

(* Mutant of SkippedTeam: the placeholder whatever the record holds. *)
SkippedTeamAnonymous(team) ==
    [id |-> "unknown", error |-> RequiredFields[FirstMissing(team)]]

(* Line 51: (team.get('id', 'unknown'), str(e)). *)
SkippedTeam(team) ==
    [id |-> IF "id" \in DOMAIN team.attrs THEN team.attrs["id"] ELSE "unknown",
     error |-> RequiredFields[FirstMissing(team)]]

(* Lines 38-54: the loop over teams from position i.  team['id'] on an     *)
(* element that is no mapping raises TypeError, which line 50 does not     *)
(* catch.                                                                  *)
RECURSIVE ProjectTeams(_, _, _, _)
ProjectTeams(teams, i, records, skipped) ==
    IF i > Len(teams) THEN [records |-> records, skipped |-> skipped, raised |-> FALSE]
    ELSE IF ~teams[i].ismap THEN [records |-> records, skipped |-> skipped, raised |-> TRUE]
    ELSE IF FirstMissing(teams[i]) # 0
    THEN ProjectTeams(teams, i + 1, records, Append(skipped, SkippedTeam(teams[i])))
    ELSE ProjectTeams(teams, i + 1, Append(records, Canonical(teams[i])), skipped)

(* Mutant of process_file: no test of the shape of the parsed content. *)
process_file_any_shape(filepath, file) ==
    IF file.kind = "unparseable"
    THEN [records |-> <<>>, skipped_files |-> <<filepath>>, empty_files |-> <<>>,
          skipped_teams |-> <<>>, raised |-> FALSE]
    ELSE LET r == ProjectTeams(file.teams, 1, <<>>, <<>>)
         IN  [records |-> IF r.raised THEN <<>> ELSE r.records,
              skipped_files |-> <<>>, empty_files |-> <<>>,
              skipped_teams |-> r.skipped, raised |-> r.raised]

(* process_file (lines 21-54) on the file at filepath: what it returns,    *)
(* what it appends to the three globals, and whether it raised.            *)
process_file(filepath, file) ==
    IF file.kind = "unparseable"
    THEN [records |-> <<>>, skipped_files |-> <<filepath>>, empty_files |-> <<>>,
          skipped_teams |-> <<>>, raised |-> FALSE]
    ELSE IF file.kind = "unknown"
    THEN [records |-> <<>>, skipped_files |-> <<>>, empty_files |-> <<filepath>>,
          skipped_teams |-> <<>>, raised |-> FALSE]
    ELSE IF file.kind = "object_num"
    THEN [records |-> <<>>, skipped_files |-> <<>>, empty_files |-> <<>>,
          skipped_teams |-> <<>>, raised |-> TRUE]
    ELSE LET r == ProjectTeams(file.teams, 1, <<>>, <<>>)
         IN  [records |-> IF r.raised THEN <<>> ELSE r.records,
              skipped_files |-> <<>>, empty_files |-> <<>>,
              skipped_teams |-> r.skipped, raised |-> r.raised]

(* Mutant of UniqueRecords: the first record of an id is kept. *)
RECURSIVE UniqueRecordsKeepFirst(_, _, _)
UniqueRecordsKeepFirst(records, i, unique) ==
    IF i > Len(records) THEN unique
    ELSE IF \E j \in 1..Len(unique) : unique[j].id = records[i].id
    THEN UniqueRecordsKeepFirst(records, i + 1, unique)
    ELSE UniqueRecordsKeepFirst(records, i + 1, Append(unique, records[i]))

(* Lines 58-65: unique_records after the loop, as the list of its values:  *)
(* a dict keeps a key at the position of its first insertion and the value *)
(* of its last assignment.                                                 *)
RECURSIVE UniqueRecords(_, _, _)
UniqueRecords(records, i, unique) ==
    IF i > Len(records) THEN unique
    ELSE LET r == records[i]
         IN  IF \E j \in 1..Len(unique) : unique[j].id = r.id
             THEN UniqueRecords(records, i + 1,
                     [j \in 1..Len(unique) |-> IF unique[j].id = r.id THEN r ELSE unique[j]])
             ELSE UniqueRecords(records, i + 1, Append(unique, r))

(* Mutant of Duplicates: an id is compared with the record before it only. *)
DuplicatesAdjacent(records) ==
    {records[k].id : k \in {k \in 2..Len(records) : records[k - 1].id = records[k].id}}

(* Lines 59-64: the set duplicates: the ids met again while already a key. *)
Duplicates(records) ==
    {records[i].id : i \in {k \in 1..Len(records) : \E j \in 1..(k - 1) : records[j].id = records[k].id}}

(* Mutant of UpsertRows: a plain insert. *)
InsertRows(rows, batch, i) == rows \o batch

(* Line 101: upsert(batch, on_conflict="id") when the store accepts it: a  *)
(* row with the id of a record is replaced by it, a record with a new id   *)
(* is inserted.                                                            *)
RECURSIVE UpsertRows(_, _, _)
UpsertRows(rows, batch, i) ==
    IF i > Len(batch) THEN rows
    ELSE IF \E j \in 1..Len(rows) : rows[j].id = batch[i].id
    THEN UpsertRows([j \in 1..Len(rows) |-> IF rows[j].id = batch[i].id THEN batch[i] ELSE rows[j]],
                    batch, i + 1)
    ELSE UpsertRows(Append(rows, batch[i]), batch, i + 1)

(* Lines 110-143: what write_log writes. *)
Summary ==
    [total_uploaded |-> total_uploaded, skipped_files |-> skipped_files,
     empty_files |-> empty_files, skipped_teams |-> skipped_teams,
     duplicate_teams |-> duplicate_teams]

(* The inputs: the listing of DATA_FOLDER. *)
TeamLists(C, n) == UNION {[1..k -> C] : k \in 0..n}

(* What a file that is skipped would have held is a record of its own. *)
Stray == [ismap |-> TRUE, attrs |-> [k \in AllFields |-> IF k = "id" THEN "t3" ELSE "a"]]

SpecialFiles == {File("other", <<Stray>>), File("unparseable", <<Stray>>), File("unknown", <<Stray>>)}

FilesWithin(C, n) ==
    SpecialFiles \cup {File(k, ts) : k \in {"array", "object"}, ts \in TeamLists(C, n)}

(* The raw records a file counts for in the bound MaxTeams. *)
Weight(f) == IF f.kind \in {"array", "object"} THEN Len(f.teams) ELSE 0

(* The listings of at most nfiles files holding at most nteams raw records. *)
RECURSIVE Folders(_, _, _)
Folders(C, nfiles, nteams) ==
    IF nfiles = 0 THEN {<<>>}
    ELSE {<<>>} \cup UNION {{<<f>> \o rest : rest \in Folders(C, nfiles - 1, nteams - Weight(f))} :
                            f \in FilesWithin(C, nteams)}

TeamCatalogue ==
    {RawTeam(AllFields, "t1", "a"), RawTeam(AllFields, "t1", "b"),
     RawTeam(AllFields \ {"national_rank"}, "t2", "a"),
     RawTeam(AllFields \ {"team_name"}, "t2", "b")}

(* Raw records lacking up to two of the six keys, and an element that is   *)
(* no mapping.                                                             *)
RichCatalogue ==
    {RawTeam(AllFields \ gone, IF "national_rank" \in gone THEN "t2" ELSE "t1", "a") :
        gone \in {g \in SUBSET AllFields : Cardinality(g) <= 2}} \cup {NotAMapping}

OldRow == Canonical(RawTeam(AllFields, "t1", "old"))

FreshGlobals ==
    /\ ipc = "files"
    /\ fi = 1
    /\ all_records = <<>>
    /\ deduplicated_records = <<>>
    /\ upserts = <<>>
    /\ skipped_files = <<>>
    /\ empty_files = <<>>
    /\ skipped_teams = <<>>
    /\ duplicate_teams = <<>>
    /\ total_uploaded = 0
    /\ upsert_error = FALSE

IngestInit ==
    /\ data_folder \in Folders(TeamCatalogue, MaxFiles, MaxTeams)
    /\ store \in {<<>>, <<OldRow>>}
    /\ logs = <<>>
    /\ run = 1
    /\ FreshGlobals

(* One file, of any shape, with records from the rich catalogue. *)
ProcessInit ==
    /\ data_folder \in {<<f>> : f \in FilesWithin(RichCatalogue, MaxFileTeams) \cup {File("object_num", <<>>)}}
    /\ store = <<>>
    /\ logs = <<>>
    /\ run = 1
    /\ FreshGlobals

(* One array of complete records, for deduplicate_records. *)
DedupCatalogue ==
    {RawTeam(AllFields, "t1", "a"), RawTeam(AllFields, "t1", "b"), RawTeam(AllFields, "t2", "a")}

DedupInit ==
    /\ data_folder \in {<<File("array", ts)>> : ts \in TeamLists(DedupCatalogue, MaxDups)}
    /\ store = <<>>
    /\ logs = <<>>
    /\ run = 1
    /\ FreshGlobals

IngestIdle ==
    /\ data_folder = <<>>
    /\ store = <<>>
    /\ logs = <<>>
    /\ run = 1
    /\ FreshGlobals

(* Lines 78-83: one pass of the loop over os.listdir(DATA_FOLDER). *)
ProcessNextFile ==
    /\ ipc = "files"
    /\ fi <= Len(data_folder)
    /\ LET file == data_folder[fi]
           r == process_file(fi, file)
       IN  IF file.kind = "other"
           THEN /\ fi' = fi + 1
                /\ UNCHANGED <<ipc, all_records, skipped_files, empty_files, skipped_teams>>
           ELSE /\ skipped_files' = skipped_files \o r.skipped_files
                /\ empty_files' = empty_files \o r.empty_files
                /\ skipped_teams' = skipped_teams \o r.skipped_teams
                /\ IF r.raised
                   THEN /\ ipc' = "raised"
                        /\ UNCHANGED <<fi, all_records>>
                   ELSE /\ all_records' = all_records \o r.records
                        /\ fi' = fi + 1
                        /\ UNCHANGED ipc
    /\ UNCHANGED <<data_folder, store, logs, run, deduplicated_records, upserts,
                   duplicate_teams, total_uploaded, upsert_error>>
    /\ UNCHANGED <<fetchVars, scrapeVars, extractVars>>

(* Lines 85-87: nothing was collected; main returns. *)
NoValidData ==
    /\ ipc = "files"
    /\ fi > Len(data_folder)
    /\ all_records = <<>>
    /\ ipc' = "returned"
    /\ UNCHANGED <<data_folder, store, logs, run, fi, all_records, deduplicated_records,
                   upserts, skipped_files, empty_files, skipped_teams, duplicate_teams,
                   total_uploaded, upsert_error>>
    /\ UNCHANGED <<fetchVars, scrapeVars, extractVars>>

(* Lines 89-98 with deduplicate_records (56-70): the ids of the set        *)
(* duplicates are appended to duplicate_teams in the set's iteration       *)
(* order.                                                                  *)
Deduplicate ==
    /\ ipc = "files"
    /\ fi > Len(data_folder)
    /\ all_records # <<>>
    /\ deduplicated_records' = UniqueRecords(all_records, 1, <<>>)
    /\ \E order \in Perms(Duplicates(all_records)) :
          duplicate_teams' = duplicate_teams \o order
    /\ ipc' = "upsert"
    /\ UNCHANGED <<data_folder, store, logs, run, fi, all_records, upserts,
                   skipped_files, empty_files, skipped_teams, total_uploaded,
                   upsert_error>>
    /\ UNCHANGED <<fetchVars, scrapeVars, extractVars>>

(* Mutant of Upsert: the count is set before the store has answered. *)
UpsertCountsFirst ==
    /\ ipc = "upsert"
    /\ upserts' = Append(upserts, deduplicated_records)
    /\ total_uploaded' = Len(deduplicated_records)
    /\ \E accepted \in BOOLEAN :
          /\ upsert_error' = ~accepted
          /\ store' = IF accepted THEN UpsertRows(store, deduplicated_records, 1) ELSE store
    /\ ipc' = "log"
    /\ UNCHANGED <<data_folder, logs, run, fi, all_records, deduplicated_records,
                   skipped_files, empty_files, skipped_teams, duplicate_teams>>
    /\ UNCHANGED <<fetchVars, scrapeVars, extractVars>>

(* Lines 100-105: the one upsert call; the store accepts the batch or      *)
(* raises, and the exception is caught: line 102 is not reached.           *)
Upsert ==
    /\ ipc = "upsert"
    /\ upserts' = Append(upserts, deduplicated_records)
    /\ \E accepted \in BOOLEAN :
          /\ upsert_error' = ~accepted
          /\ IF accepted
             THEN /\ store' = UpsertRows(store, deduplicated_records, 1)
                  /\ total_uploaded' = Len(deduplicated_records)
             ELSE UNCHANGED <<store, total_uploaded>>
    /\ ipc' = "log"
    /\ UNCHANGED <<data_folder, logs, run, fi, all_records, deduplicated_records,
                   skipped_files, empty_files, skipped_teams, duplicate_teams>>
    /\ UNCHANGED <<fetchVars, scrapeVars, extractVars>>

(* Line 108 and write_log (110-143). *)
WriteLog ==
    /\ ipc = "log"
    /\ logs' = Append(logs, [run |-> run, summary |-> Summary])
    /\ ipc' = "returned"
    /\ UNCHANGED <<data_folder, store, run, fi, all_records, deduplicated_records,
                   upserts, skipped_files, empty_files, skipped_teams, duplicate_teams,
                   total_uploaded, upsert_error>>
    /\ UNCHANGED <<fetchVars, scrapeVars, extractVars>>

(* The script is run again on the same folder: a new process, whose        *)
(* globals start as lines 15-19 set them; the store and the logs stay.     *)
RunAgain ==
    /\ ipc \in {"returned", "raised"}
    /\ run < MaxRuns
    /\ run' = run + 1
    /\ ipc' = "files"
    /\ fi' = 1
    /\ all_records' = <<>>
    /\ deduplicated_records' = <<>>
    /\ upserts' = <<>>
    /\ skipped_files' = <<>>
    /\ empty_files' = <<>>
    /\ skipped_teams' = <<>>
    /\ duplicate_teams' = <<>>
    /\ total_uploaded' = 0
    /\ upsert_error' = FALSE
    /\ UNCHANGED <<data_folder, store, logs>>
    /\ UNCHANGED <<fetchVars, scrapeVars, extractVars>>

IngestNext ==
    \/ ProcessNextFile
    \/ NoValidData
    \/ Deduplicate
    \/ Upsert
    \/ WriteLog
    \/ RunAgain

-----------------------------------------------------------------------------
InitFetch == FetchInit /\ ScrapeIdle /\ IngestIdle /\ ExtractIdle

InitScrape == ScrapeInit /\ FetchIdle /\ IngestIdle /\ ExtractIdle

InitIngest == IngestInit /\ FetchIdle /\ ScrapeIdle /\ ExtractIdle

InitProcess == ProcessInit /\ FetchIdle /\ ScrapeIdle /\ ExtractIdle

InitDedup == DedupInit /\ FetchIdle /\ ScrapeIdle /\ ExtractIdle

InitExtract == ExtractInit /\ FetchIdle /\ ScrapeIdle /\ IngestIdle

SpecExtract == InitExtract /\ [][ExtractNext]_vars

SpecDedup == InitDedup /\ [][IngestNext]_vars

SpecFetch == InitFetch /\ [][FetchNext]_vars

SpecScrape == InitScrape /\ [][ScrapeNext]_vars

SpecIngest == InitIngest /\ [][IngestNext]_vars

SpecProcess == InitProcess /\ [][IngestNext]_vars

-----------------------------------------------------------------------------
(* Properties of the scraper.                                              *)

(* The group's collection has ended after a first request that succeeded. *)
Collected == spc = "pause" /\ first_page.kind = "dict" /\ Truthy(first_page)

(* C1: when the first request of a group succeeds and reports total_pages  *)
(* = N, every page of 1..N is handed to fetch_data_with_retry exactly once *)
(* during the group's collection, the synchronous first request counted.   *)
C1_EachPageFetchedOnce ==
    Collected => \A p \in 1..total_pages : fetched[p] = 1

AllFailed == \A i \in 1..Len(responses) : ~AttemptReturns(responses[i])

(* C3: when every attempt fails, fetch_data_with_retry makes exactly       *)
(* MAX_RETRIES attempts and returns None; the delay slept after failed     *)
(* attempt k is RETRY_DELAY * k for k = 1 .. MAX_RETRIES - 1, and nothing  *)
(* is slept after the last attempt.                                        *)
C3_RetryCeiling ==
    (fpc = "returned" /\ AllFailed) =>
        /\ Len(responses) = MAX_RETRIES
        /\ fret = None
        /\ slept = [k \in 1..(MAX_RETRIES - 1) |-> RETRY_DELAY * k]

C3_Witness ==
    /\ fpc = "returned"
    /\ AllFailed
    /\ Len(responses) = MAX_RETRIES
    /\ Len(slept) = MAX_RETRIES - 1
    /\ \E i, j \in 1..Len(responses) : responses[i].kind = "timeout" /\ responses[j].kind = "status_500"

(* C5: when the first request of a group returns None, scrape_group makes  *)
(* no further fetch for the group and writes no raw dump and no aggregate  *)
(* for it, and the group loop goes on to the next group.                   *)
C5_AbortConfinedToGroup ==
    [][(spc = "pause" /\ first_page = None) =>
          /\ fetched = [NoFetches EXCEPT ![1] = 1]
          /\ fut = <<>>
          /\ DOMAIN files = {}
          /\ written'[gi] = {}
          /\ gi' = gi + 1
          /\ (gi < NumGroups => spc' = "first")]_vars

(* The first group was abandoned and the second one is being drained. *)
C5_Witness ==
    /\ gi = 2
    /\ 1 \in aborted
    /\ written[1] = {}
    /\ spc = "drain"
    /\ idx >= 1

(* What the pool's finished fetches, taken in the order the drain loop got *)
(* them, hold as records: nothing for a fetch that returned None.          *)
RECURSIVE PoolRecords(_)
PoolRecords(i) ==
    IF i = 0 THEN <<>>
    ELSE PoolRecords(i - 1) \o (IF fut[yielded[i]].res # None
                                THEN ExtractPage(fut[yielded[i]].res).teams
                                ELSE <<>>)

(* C6: a pool fetch that returns None does not fail the group: every page  *)
(* url is still fetched and its future processed, and all_teams is the     *)
(* concatenation, in completion order and without deduplication, of the    *)
(* records extracted from the fetches that succeeded.                      *)
C6_FailedPageSkipped ==
    /\ all_teams = PoolRecords(Len(yielded))
    /\ Collected =>
          /\ \A p \in page_urls : fetched[p] >= 1 /\ \E i \in 1..Len(yielded) : yielded[i] = p
          /\ Len(yielded) = total_pages

(* One pool fetch failed, another one's records were aggregated, one of   *)
(* them twice.                                                            *)
C6_Witness ==
    /\ Collected
    /\ \E p, q \in page_urls : fut[p].res = None /\ fut[q].res = MalformedPage(q, total_pages)
    /\ Len(all_teams) = 2

-----------------------------------------------------------------------------
(* Properties of the ingestion.                                            *)

(* A raw record that is a mapping with every required key. *)
IsComplete(team) ==
    team.ismap /\ \A i \in 1..Len(RequiredFields) : RequiredFields[i] \in DOMAIN team.attrs

(* The canonical records of the complete raw records of a list, in order. *)
RECURSIVE ValidOf(_)
ValidOf(teams) ==
    IF teams = <<>> THEN <<>>
    ELSE (IF IsComplete(Head(teams)) THEN <<Canonical(Head(teams))>> ELSE <<>>)
            \o ValidOf(Tail(teams))

(* The ids under which the incomplete raw records of a list are reported. *)
RECURSIVE SkippedIdsOf(_)
SkippedIdsOf(teams) ==
    IF teams = <<>> THEN <<>>
    ELSE (IF IsComplete(Head(teams)) THEN <<>>
          ELSE IF "id" \in DOMAIN Head(teams).attrs THEN <<Head(teams).attrs["id"]>>
          ELSE <<"unknown">>)
            \o SkippedIdsOf(Tail(teams))

(* The records of the first n files of the listing, file by file. *)
RECURSIVE InputRecords(_)
InputRecords(n) ==
    IF n = 0 THEN <<>>
    ELSE InputRecords(n - 1) \o (IF data_folder[n].kind \in {"array", "object"}
                                 THEN ValidOf(data_folder[n].teams)
                                 ELSE <<>>)

Count(xs, x) == Cardinality({i \in 1..Len(xs) : xs[i] = x})

Occurrences(records, id) == Cardinality({i \in 1..Len(records) : records[i].id = id})

LastWith(records, id) ==
    records[CHOOSE i \in 1..Len(records) :
               records[i].id = id /\ \A j \in (i + 1)..Len(records) : records[j].id # id]

UniqueIds(rows) == \A i, j \in 1..Len(rows) : rows[i].id = rows[j].id => i = j

LoggedThisRun == \E i \in 1..Len(logs) : logs[i].run = run

(* C2: every run of main that returns has written the summary log before   *)
(* returning.                                                              *)
C2_LogWrittenBeforeReturn ==
    ipc = "returned" => LoggedThisRun

(* C4: the batch handed to upsert holds at most one record per id, and for *)
(* each id of the input it is the last record of that id in file-then-     *)
(* record order, whole.                                                    *)
C4_OnePerIdentityLastWins ==
    \A b \in 1..Len(upserts) :
        LET batch == upserts[b]
            input == InputRecords(Len(data_folder))
        IN  /\ UniqueIds(batch)
            /\ {batch[i].id : i \in 1..Len(batch)} = {input[i].id : i \in 1..Len(input)}
            /\ \A i \in 1..Len(batch) : batch[i] = LastWith(input, batch[i].id)

(* Two files name the same id with different values; the batch was sent. *)
C4_Witness ==
    /\ Len(data_folder) = 2
    /\ upserts # <<>>
    /\ data_folder[1].kind = "array" /\ data_folder[2].kind = "object"
    /\ data_folder[1].teams # <<>> /\ data_folder[2].teams # <<>>
    /\ Len(InputRecords(1)) = 1 /\ Len(InputRecords(2)) = 2
    /\ Len(upserts[1]) = 1
    /\ InputRecords(2)[1] # InputRecords(2)[2]

PriorUpload == \E i \in 1..Len(logs) : logs[i].summary.total_uploaded > 0

(* C7: once a run has upserted the files, the upsert of a later run on the *)
(* same files leaves the table as it was: same rows, one per id.           *)
C7_IdempotentUpsert ==
    [][(ipc = "upsert" /\ PriorUpload) => (store' = store /\ UniqueIds(store'))]_vars

(* The second run's upsert was accepted after the first run's was. *)
C7_Witness ==
    /\ run = 2
    /\ ipc = "log"
    /\ total_uploaded > 0
    /\ PriorUpload
    /\ Len(store) = 2
    /\ Len(all_records) > Len(deduplicated_records)

AllMappings(teams) == \A i \in 1..Len(teams) : teams[i].ismap

(* C8: process_file leaves out a raw record lacking a required key and     *)
(* adds one entry to skipped_teams for it, under its id or under 'unknown' *)
(* when it has none; the complete records of the file are all returned,    *)
(* and a record lacking only national_rank is returned with rank None.     *)
C8_RequiredFieldDrop ==
    (fi = 2 /\ data_folder[1].kind \in {"array", "object"} /\ AllMappings(data_folder[1].teams)) =>
        LET teams == data_folder[1].teams
        IN  /\ all_records = ValidOf(teams)
            /\ [i \in 1..Len(skipped_teams) |-> skipped_teams[i].id] = SkippedIdsOf(teams)
            /\ \A i \in 1..Len(teams) :
                  (IsComplete(teams[i]) /\ "national_rank" \notin DOMAIN teams[i].attrs) =>
                      \E k \in 1..Len(all_records) :
                          /\ all_records[k].id = teams[i].attrs["id"]
                          /\ all_records[k].national_rank = PyNone

(* A file with a record lacking a required key but not its id, and a       *)
(* record lacking only national_rank.                                      *)
C8_Witness ==
    /\ fi = 2
    /\ Len(data_folder[1].teams) = 2
    /\ Len(all_records) = 1
    /\ all_records[1].national_rank = PyNone
    /\ Len(skipped_teams) = 1
    /\ skipped_teams[1].id # "unknown"

(* C9: a file that does not parse is recorded in skipped_files, a file of  *)
(* an unknown shape in empty_files; neither gives an id to the batch, and  *)
(* the files after it are processed all the same.                          *)
C9_BadFileSkipped ==
    /\ ipc # "raised"
    /\ all_records = InputRecords(fi - 1)
    /\ \A i \in 1..(fi - 1) :
          /\ data_folder[i].kind = "unparseable" => Count(skipped_files, i) = 1
          /\ data_folder[i].kind = "unknown" => Count(empty_files, i) = 1
    /\ ipc # "files" => fi = Len(data_folder) + 1
    /\ \A b \in 1..Len(upserts) : \A k \in 1..Len(upserts[b]) :
          \E i \in 1..Len(data_folder) :
              /\ data_folder[i].kind \in {"array", "object"}
              /\ \E t \in SeqRange(data_folder[i].teams) :
                    "id" \in DOMAIN t.attrs /\ t.attrs["id"] = upserts[b][k].id

(* A file of unknown shape came first and the next file's record was sent. *)
C9_Witness ==
    /\ Len(data_folder) = 2
    /\ data_folder[1].kind = "unknown"
    /\ empty_files = <<1>>
    /\ upserts # <<>>
    /\ ipc = "log"

(* C10: after deduplicate_records has run once, an id that occurs twice or *)
(* more in the records is in duplicate_teams exactly once, and an id that  *)
(* occurs once is not in it.                                               *)
C10_DuplicateReportedOnce ==
    (ipc \in {"upsert", "log"}) =>
        \A id \in {all_records[i].id : i \in 1..Len(all_records)} \cup SeqRange(duplicate_teams) :
            Count(duplicate_teams, id) = IF Occurrences(all_records, id) >= 2 THEN 1 ELSE 0

(* An id occurs three times around another that occurs once. *)
C10_Witness ==
    /\ ipc = "upsert"
    /\ Len(all_records) = 4
    /\ Occurrences(all_records, "t1") = 3
    /\ all_records[1].id = "t1" /\ all_records[2].id = "t2"
    /\ duplicate_teams = <<"t1">>

(* The ids of a list of records. *)
IdsOf(records) == {records[i].id : i \in 1..Len(records)}

(* C11: a run with a valid record calls upsert exactly once, with the      *)
(* whole deduplicated set, one record per id; when the call raises, the    *)
(* exception is caught, no second call is made, nothing smaller is sent,   *)
(* total_uploaded is not the batch size, and the summary is still written. *)
C11_OneUpsertFailureTolerated ==
    /\ Len(upserts) <= 1
    /\ upsert_error => Len(upserts) = 1
    /\ (ipc \in {"log", "returned"} /\ all_records # <<>>) =>
          /\ Len(upserts) = 1
          /\ upserts[1] = deduplicated_records
          /\ UniqueIds(upserts[1])
          /\ IdsOf(upserts[1]) = IdsOf(all_records)
          /\ upsert_error => total_uploaded # Len(upserts[1])
          /\ ~upsert_error => total_uploaded = Len(upserts[1])
    /\ (ipc = "returned" /\ upsert_error) =>
          /\ LoggedThisRun
          /\ logs[Len(logs)].run = run
          /\ logs[Len(logs)].summary.total_uploaded = 0

(* The store refused the one record left of two and the run has returned. *)
C11_Witness ==
    /\ ipc = "returned"
    /\ upsert_error
    /\ Len(all_records) = 2
    /\ Len(upserts) = 1
    /\ Len(upserts[1]) = 1
    /\ LoggedThisRun

-----------------------------------------------------------------------------
(* Properties of fetch_data_with_retry, continued.                         *)

Succeeded(o) == o.kind = "ok"

(* C12: whatever the outcomes of the attempts, fetch_data_with_retry ends  *)
(* by returning: it makes no attempt after one that succeeded and returns  *)
(* that attempt's JSON, never makes more than MAX_RETRIES attempts, and    *)
(* returns None only when all MAX_RETRIES attempts failed.                 *)
C12_FirstSuccessElseNone ==
    /\ fpc \in {"idle", "request", "sleep", "returned"}
    /\ Len(responses) <= MAX_RETRIES
    /\ \A i \in 1..(Len(responses) - 1) : ~Succeeded(responses[i])
    /\ fpc = "returned" =>
          /\ responses # <<>>
          /\ Succeeded(responses[Len(responses)]) => fret = responses[Len(responses)].body
          /\ fret = None =>
                /\ Len(responses) = MAX_RETRIES
                /\ \A i \in 1..Len(responses) : ~Succeeded(responses[i])

-----------------------------------------------------------------------------
(* Properties of the scraper, continued.                                   *)

(* No fetch of the pool is queued or running, and no thread is fetching. *)
PoolQuiet ==
    /\ Running = {}
    /\ Queued = {}
    /\ \A w \in DOMAIN workers : workers[w].page = 0

(* C13: the group loop moves to the next group only when every fetch of    *)
(* the group has finished, every future has been processed by the drain    *)
(* loop and the aggregate is decided (written when there are records); a   *)
(* group's first request starts with no fetch of an earlier group pending. *)
C13_GroupsSequential ==
    [][/\ gi' # gi =>
            /\ PoolQuiet
            /\ submitted = total_pages
            /\ Len(fut) = total_pages
            /\ Len(yielded) = Len(fut)
            /\ idx = Len(fut)
            /\ yieldq = <<>>
            /\ (all_teams # <<>>) <=> (TeamDataName \in DOMAIN files)
            /\ gi' = gi + 1
       /\ spc = "first" => (fut = <<>> /\ PoolQuiet)
       /\ fetched' # fetched => (gi' # gi \/ \E p \in 1..MaxPages :
                                    fetched' = [fetched EXCEPT ![p] = @ + 1])]_vars

(* The second group starts after a first group of two pages whose dumps    *)
(* and aggregate were written.                                             *)
C13_Witness ==
    /\ gi = 2
    /\ spc = "first"
    /\ {RawName(1), RawName(2), TeamDataName} \subseteq written[1]

(* C17: a pool worker that has finished a fetch starts its next fetch only *)
(* after a jitter delay has elapsed since that fetch ended.                *)
C17_JitterPacesWorker ==
    [][\A w \in DOMAIN workers :
          (w \in DOMAIN workers' /\ workers[w].page = 0 /\ workers'[w].page # 0) =>
              workers[w].paced]_vars

(* The records of the first response: those of its canonical list. *)
FirstPageRecords == IF HasCanonicalList(first_page) THEN CanonicalTeams(first_page) ELSE <<>>

(* C18: when the first request succeeded, the records of its response are  *)
(* in all_teams and in the aggregate file at the end of the collection.    *)
C18_FirstPageRecordsKept ==
    Collected =>
        \A t \in SeqRange(FirstPageRecords) :
            /\ t \in SeqRange(all_teams)
            /\ TeamDataName \in DOMAIN files
            /\ t \in SeqRange(files[TeamDataName].teams)

(* The raw dumps of the group, by number. *)
Dumps == {n \in 1..(MaxPages + 1) : RawName(n) \in DOMAIN files}

(* The pages whose response was obtained, by the first request or in the   *)
(* pool.                                                                   *)
PagesObtained == {1} \cup {p \in DOMAIN fut : fut[p].st = "done" /\ Truthy(fut[p].res)}

(* C19: at the end of a collection the raw dump numbered n holds the       *)
(* response fetched for page n, and there is one dump per page obtained.   *)
C19_DumpPerPage ==
    Collected =>
        /\ \A n \in Dumps : files[RawName(n)].data.page = n
        /\ Cardinality(Dumps) = Cardinality(PagesObtained)

(* C20: a first response other than None is persisted and the group is     *)
(* not abandoned; a pool response other than None is persisted.            *)
C20_OnlyFailureAbandons ==
    /\ (spc \in {"submit", "drain", "jitter", "pause", "crashed"} /\ first_page # None) =>
          RawName(1) \in DOMAIN files
    /\ (spc = "pause" /\ first_page # None) => submitted = TotalPagesOf(first_page)
    /\ \A i \in 1..Len(yielded) :
          fut[yielded[i]].res # None => RawName(i) \in DOMAIN files

-----------------------------------------------------------------------------
(* Properties of the record extraction.                                    *)

HasMarker(x) == x.ismap /\ x.keys \cap {"name", "id", "team", "rank"} # {}

(* The records a payload's fields hold, the fields taken one by one and a  *)
(* field that is no list of records passed over: the canonical list first, *)
(* then every other list whose first element is a mapping with a marker    *)
(* key.                                                                    *)
RECURSIVE OtherRecords(_)
OtherRecords(fs) ==
    IF fs = <<>> THEN <<>>
    ELSE (IF /\ Head(fs).key # "team_ranking_data"
             /\ Head(fs).islist
             /\ Head(fs).items # <<>>
             /\ HasMarker(Head(fs).items[1])
          THEN Head(fs).items ELSE <<>>) \o OtherRecords(Tail(fs))

RECURSIVE CanonicalRecords(_)
CanonicalRecords(fs) ==
    IF fs = <<>> THEN <<>>
    ELSE (IF Head(fs).key = "team_ranking_data" /\ Head(fs).islist
          THEN Head(fs).items ELSE <<>>) \o CanonicalRecords(Tail(fs))

(* C14: the extraction from a payload does not raise, and a field that is  *)
(* malformed (an empty list, a list of elements that are no mappings, a    *)
(* list whose first element has no marker key) is passed over: the records *)
(* of the canonical field and of every other matching list are all added,  *)
(* wherever the malformed field stands among the payload's fields.         *)
C14_MalformedFieldSkipped ==
    (xpc = "done" /\ payload.kind = "dict") =>
        /\ ~xraised
        /\ extracted = CanonicalRecords(payload.fields) \o OtherRecords(payload.fields)

(* The payload has no canonical field and one other field, a list. *)
SingleOtherList ==
    /\ payload.kind = "dict"
    /\ Len(payload.fields) = 1
    /\ payload.fields[1].key # "team_ranking_data"
    /\ payload.fields[1].islist

(* C15: from a payload with no canonical field and one other list field,   *)
(* the extraction yields the list's elements in order when the list is not *)
(* empty and its first element is a mapping with a marker key, and nothing *)
(* when the first element is no mapping or has no marker key.              *)
C15_FallbackField ==
    (xpc = "done" /\ SingleOtherList) =>
        LET items == payload.fields[1].items
        IN  /\ (items # <<>> /\ HasMarker(items[1])) => extracted = items
            /\ (items # <<>> /\ ~HasMarker(items[1])) => extracted = <<>>

(* A list of two records under a key other than the canonical one. *)
C15_Witness ==
    /\ xpc = "done"
    /\ SingleOtherList
    /\ payload.fields[1].key = "teams"
    /\ Len(extracted) = 2
    /\ extracted[1] # extracted[2]

-----------------------------------------------------------------------------
(* Properties of the ingestion, continued.                                 *)

(* C16: no content of a file ends the run: an element of the record list   *)
(* that cannot be projected (a required key is missing, or it is no        *)
(* mapping) is left out and recorded, and the other elements of the file   *)
(* are still collected.                                                    *)
C16_NoContentAborts ==
    /\ ipc # "raised"
    /\ (fi = 2 /\ data_folder[1].kind \in {"array", "object"}) =>
          /\ all_records = ValidOf(data_folder[1].teams)
          /\ Len(all_records) + Len(skipped_teams) = Len(data_folder[1].teams)

=============================================================================
